---- MODULE Spec2Model ----
(***************************************************************************)
(* Model of the monitoring app: the nested serializers that turn one       *)
(* snapshot document into rows (monitoringserializers.py), the relational   *)
(* schema with its constraints (monitoringmodels.py), the three viewsets    *)
(* (monitoringviews.py) and the filter of the snapshot list                 *)
(* (monitoringfilters.py).                                                  *)
(*                                                                         *)
(* The store is the set of committed rows.  The source opens no            *)
(* transaction (there is no transaction.atomic anywhere), so every          *)
(* Model.objects.create() is its own committed statement: a request is a    *)
(* sequence of statements, executed one per step, and other requests may    *)
(* run between two statements.                                              *)
(*                                                                         *)
(* Through the routes of the viewsets rows are written by one entry only,  *)
(* the POST of the snapshot viewset (is_valid, then save, which calls       *)
(* ServerMetricSerializer.create).  The validation of a nested serializer   *)
(* is also run on its own, on the part of a document that is its data; it   *)
(* writes nothing.  The tables are empty at the start (Spec) or hold        *)
(* Snapshot rows already (SpecStored).                                      *)
(*                                                                         *)
(* The nested serializers are public classes too: used as a serializer is   *)
(* used (is_valid, then save(parent=instance)) their create() inserts rows. *)
(* No route and no line of the source uses them so; SpecSerializers         *)
(* describes that use, apart from the API.                                  *)
(*                                                                         *)
(* Reads, deletes and partial updates are requests of the same kind: a     *)
(* list selects the rows and then reads the related rows field by field,    *)
(* a delete collects the dependent rows before it deletes, a partial        *)
(* update reads the row, writes it back (UPDATE, then INSERT if no row was  *)
(* matched) and renders it.                                                 *)
(*                                                                         *)
(* Three pieces the application needs are not in the source: the           *)
(* WindowsUpdate model (monitoringmodels.py declares none, so the imports   *)
(* of the other three files fail as they stand), the end of                *)
(* monitoringfilters.py (the file stops inside WindowsUpdateFilter.Meta and *)
(* does not compile as it stands; ServerMetricFilter, lines 6-17, is        *)
(* whole) and the settings module.  The model describes the application     *)
(* with these pieces supplied: see WindowsUpdateParent and                  *)
(* DEFAULT_FILTER_BACKENDS.                                                  *)
(***************************************************************************)
EXTENDS Integers, Sequences, FiniteSets, TLC

\* Number of requests in one run.
MaxReq == 3

\* Number of requests the server executes at the same time.
MaxRunning == 2

VARIABLES
    store,   \* set of committed rows, all tables together
    req      \* req[r]: the r-th request: what was called and where it stands

vars == <<store, req>>

Reqs == 1..MaxReq

-----------------------------------------------------------------------------
(* Schema: monitoringmodels.py *)

\* A generated primary key: <<request, statement number>>.  NULL is no key.
NULL == <<0, 0>>

\* Tables whose foreign key is a OneToOneField (unique on the parent).
OneToOneKinds ==
    {"AssetInfo", "OSInfo", "SystemInfo", "CPUInfo", "MemoryInfo",
     "VirtualizationInfo", "MetricData", "MemoryUsageMetric", "CPULoadMetric",
     "NetworkUsageMetric", "TopProcessesMetric"}

\* Tables with unique_together = (parent, name).
UniqueTogetherKinds ==
    {"DiskInfo", "NetworkInterfaceInfo", "DiskUsageMetric", "TopDiskConsumerMetric"}

\* monitoringmodels.py declares no WindowsUpdate model, although the
\* serializers, the views and the filters import one.  The table is taken
\* from the data model of the specification: AssetInfo owns its
\* WindowsUpdate rows one-to-many, deleted with it.
WindowsUpdateParent == "AssetInfo"

\* The table a row's foreign key points to ("" for the root table).
ParentKind(kind) ==
    CASE kind = "ServerMetric" -> ""
      [] kind \in {"AssetInfo", "MetricData"} -> "ServerMetric"
      [] kind \in {"OSInfo", "SystemInfo", "CPUInfo", "MemoryInfo",
                   "VirtualizationInfo", "DiskInfo", "NetworkInterfaceInfo"}
             -> "AssetInfo"
      [] kind = "WindowsUpdate" -> WindowsUpdateParent
      [] kind \in {"MemoryUsageMetric", "CPULoadMetric", "NetworkUsageMetric",
                   "TopProcessesMetric", "DiskUsageMetric",
                   "TopDiskConsumerMetric"} -> "MetricData"
      [] kind = "ProcessDetail" -> "TopProcessesMetric"

\* ProcessDetail.PROCESS_TYPE_CHOICES
PROCESS_TYPE_CHOICES == {"cpu", "memory"}

-----------------------------------------------------------------------------
(* Decimals.  A decimal number is its digits and its number of decimal      *)
(* places: Dec(855, 1) is 85.5.  The documents of the model carry no         *)
(* negative number.                                                          *)

Dec(digits, places) == [digits |-> digits, places |-> places]

RECURSIVE Pow10(_)
Pow10(n) == IF n = 0 THEN 1 ELSE 10 * Pow10(n - 1)

\* The number of digits of a natural number (1 for 0).
RECURSIVE NumDigits(_)
NumDigits(n) == IF n < 10 THEN 1 ELSE 1 + NumDigits(n \div 10)

\* DecimalField.validate_precision of the serializer field a ModelSerializer
\* builds for models.DecimalField(max_digits, decimal_places): the digits in
\* all, the decimal places and the digits before the point are limited; the
\* field has no minimum and no maximum value.
DecimalValid(d, max_digits, decimal_places) ==
    LET whole == d.digits \div Pow10(d.places)
        wholeDigits == IF whole = 0 THEN 0 ELSE NumDigits(whole)
        totalDigits == IF NumDigits(d.digits) > d.places
                       THEN NumDigits(d.digits) ELSE d.places
    IN  /\ totalDigits <= max_digits
        /\ d.places <= decimal_places
        /\ wholeDigits <= max_digits - decimal_places

\* A decimal rounded to two places, half to even, in hundredths.
Hundredths(d) ==
    IF d.places <= 2 THEN d.digits * Pow10(2 - d.places)
    ELSE LET unit == Pow10(d.places - 2)
             q == d.digits \div unit
             twice == 2 * (d.digits % unit)
         IN  IF twice > unit \/ (twice = unit /\ q % 2 = 1) THEN q + 1 ELSE q

\* Decimal.quantize to two places in a context of precision max_digits, as
\* DecimalField does when the value goes to its column: a result of more than
\* max_digits digits raises decimal.InvalidOperation.  value is in hundredths;
\* it is the number the representation ("85.50") shows.
Quantize(d, max_digits) ==
    IF NumDigits(Hundredths(d)) > max_digits
    THEN [exc |-> "InvalidOperation", value |-> 0]
    ELSE [exc |-> "", value |-> Hundredths(d)]

-----------------------------------------------------------------------------
(* Input documents.  A document is a record with the set of keys that are   *)
(* present in it; a field whose key is absent carries a filler value that   *)
(* is never read.  The scalar attributes of the one-to-one objects (os,     *)
(* system, ...) are passed through to the row unchanged and are left out,   *)
(* but for percentage_used of memory_usage.                                 *)

\* Keys of a process entry other than process_type.
ProcessKeys == {"pid", "user", "cpu_percent", "mem_percent", "command"}

\* A by_cpu / by_memory entry without a process_type key.
Entry(pid) == [keys |-> ProcessKeys, pid |-> pid, process_type |-> ""]

\* A by_cpu / by_memory entry in which the caller supplies process_type.
TaggedEntry(pid, t) ==
    [keys |-> ProcessKeys \cup {"process_type"}, pid |-> pid, process_type |-> t]

RequiredAssetKeys == {"os", "system", "cpu", "memory", "virtualization"}

RequiredMetricKeys == {"memory_usage", "cpu_load", "network_usage", "top_processes"}

AssetDoc(keys, disks, nics, updates) ==
    [keys |-> keys \cup {"hostname"}, hostname |-> "asset",
     disks |-> disks, network_interfaces |-> nics, windows_updates |-> updates]

TopProcessesDoc(keys, byCpu, byMemory) ==
    [keys |-> keys, by_cpu |-> byCpu, by_memory |-> byMemory]

MemoryUsageDoc(pct) == [percentage_used |-> pct]

MetricDoc(keys, mu, tp, du, tdc) ==
    [keys |-> keys, memory_usage |-> mu, top_processes |-> tp, disk_usage |-> du,
     top_disk_consumers |-> tdc]

SnapshotDoc(ts, host, asset, metrics) ==
    [keys |-> {"timestamp", "hostname", "asset_info", "metrics"},
     timestamp |-> ts, hostname |-> host, asset_info |-> asset, metrics |-> metrics]

MinAsset == AssetDoc(RequiredAssetKeys, <<>>, <<>>, <<>>)

MinMetrics ==
    MetricDoc(RequiredMetricKeys, MemoryUsageDoc(Dec(50, 0)),
              TopProcessesDoc({}, <<>>, <<>>), <<>>, <<>>)

PayloadNames == {"full", "min", "dupdisk", "nosystem", "tagged", "nomem"}

\* Documents that differ from "min" in percentage_used of memory_usage only:
\* 150 and 1000.
PercentPayloads == {"pct150", "pct1000"}

\* The documents the requests of a run are drawn from.
Payload(n) ==
    CASE n = "full" ->
           SnapshotDoc(1, "web01",
               AssetDoc(RequiredAssetKeys \cup
                            {"disks", "network_interfaces", "windows_updates"},
                        <<"sda", "sdb">>, <<"eth0">>, <<"KB1">>),
               MetricDoc(RequiredMetricKeys \cup {"disk_usage", "top_disk_consumers"},
                         MemoryUsageDoc(Dec(855, 1)),
                         TopProcessesDoc({"by_cpu", "by_memory"},
                                         <<Entry(1)>>, <<Entry(2)>>),
                         <<"/">>, <<"/var">>))
      [] n = "min" -> SnapshotDoc(2, "db01", MinAsset, MinMetrics)
      [] n = "dupdisk" ->
           SnapshotDoc(2, "db01",
               AssetDoc(RequiredAssetKeys \cup {"disks"}, <<"sda", "sda">>, <<>>, <<>>),
               MinMetrics)
      [] n = "nosystem" ->
           SnapshotDoc(2, "db01",
               AssetDoc(RequiredAssetKeys \ {"system"}, <<>>, <<>>, <<>>),
               MinMetrics)
      [] n = "tagged" ->
           SnapshotDoc(2, "db01", MinAsset,
               MetricDoc(RequiredMetricKeys, MemoryUsageDoc(Dec(50, 0)),
                         TopProcessesDoc({"by_cpu", "by_memory"},
                                         <<TaggedEntry(1, "memory")>>,
                                         <<TaggedEntry(2, "memory")>>),
                         <<>>, <<>>))
      [] n = "nomem" ->
           SnapshotDoc(2, "db01", MinAsset,
               MetricDoc(RequiredMetricKeys \ {"memory_usage"},
                         MemoryUsageDoc(Dec(0, 0)),
                         TopProcessesDoc({}, <<>>, <<>>), <<>>, <<>>))
      [] n = "pct150" ->
           SnapshotDoc(2, "db01", MinAsset,
               [MinMetrics EXCEPT !.memory_usage = MemoryUsageDoc(Dec(150, 0))])
      [] n = "pct1000" ->
           SnapshotDoc(2, "db01", MinAsset,
               [MinMetrics EXCEPT !.memory_usage = MemoryUsageDoc(Dec(1000, 0))])

\* dict.pop(key, default)
Pop(doc, key, default) == IF key \in doc.keys THEN doc[key] ELSE default

\* The part of a snapshot document a serializer takes as its data.
SubDoc(ser, p) ==
    CASE ser = "ServerMetricSerializer" -> p
      [] ser = "AssetInfoSerializer" -> p.asset_info
      [] ser = "MetricDataSerializer" -> p.metrics
      [] ser = "TopProcessesMetricSerializer" -> p.metrics.top_processes

\* The documents that differ for a serializer: two snapshot documents with
\* the same sub-document are one input to a nested serializer.
PayloadsFor(ser) ==
    {n \in PayloadNames \cup PercentPayloads :
        \/ n = "min"
        \/ SubDoc(ser, Payload(n)) # SubDoc(ser, Payload("min"))}

-----------------------------------------------------------------------------
(* Validation: is_valid() of each serializer.  The result is "ok" or the    *)
(* exception that leaves is_valid(raise_exception=True).                     *)

\* A Meta with 'exclude' alone, as the other serializers have it.
MetaWithExcludeOnly == [exclude |-> {"id", "asset_info"}, fields |-> {}]

\* SystemInfoSerializer.Meta sets both options.
SystemInfoSerializerMeta ==
    [exclude |-> {"id", "asset_info"},
     fields  |-> {"manufacturer", "product_name", "serial_number", "bios_version",
                  "chassis_type", "uptime_initial", "last_update_check_time",
                  "pending_updates_count"}]

\* Building the fields of SystemInfoSerializer: a ModelSerializer refuses a
\* Meta with both 'fields' and 'exclude'.
ValidateSystemInfo ==
    IF SystemInfoSerializerMeta.fields # {} /\ SystemInfoSerializerMeta.exclude # {}
    THEN "AssertionError" ELSE "ok"

\* ProcessDetailSerializer excludes only id and top_processes_metric, so
\* process_type is a required choice field of every entry.
ValidateProcessDetail(e) ==
    IF "process_type" \in e.keys /\ e.process_type \in PROCESS_TYPE_CHOICES
    THEN "ok" ELSE "ValidationError"

ValidateTopProcesses(tp) ==
    LET cpu == Pop(tp, "by_cpu", <<>>)
        mem == Pop(tp, "by_memory", <<>>)
    IN  IF /\ \A i \in 1..Len(cpu) : ValidateProcessDetail(cpu[i]) = "ok"
           /\ \A i \in 1..Len(mem) : ValidateProcessDetail(mem[i]) = "ok"
        THEN "ok" ELSE "ValidationError"

\* MemoryUsageMetricSerializer: percentage_used is the DecimalField of the
\* model, max_digits=5, decimal_places=2.
ValidateMemoryUsage(mu) ==
    IF DecimalValid(mu.percentage_used, 5, 2) THEN "ok" ELSE "ValidationError"

ValidateMetricData(m) ==
    IF /\ RequiredMetricKeys \subseteq m.keys
       /\ ValidateMemoryUsage(m.memory_usage) = "ok"
       /\ ValidateTopProcesses(m.top_processes) = "ok"
    THEN "ok" ELSE "ValidationError"

\* A validation of the asset document that does not build the fields of
\* SystemInfoSerializer.
RequiredAssetKeysOnly(a) ==
    IF RequiredAssetKeys \subseteq a.keys THEN "ok" ELSE "ValidationError"

\* The fields are validated in declaration order and their ValidationErrors
\* are collected; any other exception leaves at once.
ValidateAssetInfo(a) ==
    IF "system" \in a.keys /\ ValidateSystemInfo # "ok" THEN ValidateSystemInfo
    ELSE IF RequiredAssetKeys \subseteq a.keys THEN "ok"
    ELSE "ValidationError"

\* A validation of the snapshot document that leaves the nested documents
\* to create().
TopLevelKeysOnly(p) ==
    IF {"timestamp", "hostname", "asset_info", "metrics"} \subseteq p.keys
    THEN "ok" ELSE "ValidationError"

ValidateServerMetric(p) ==
    IF "asset_info" \in p.keys /\ ValidateAssetInfo(p.asset_info) = "AssertionError"
    THEN "AssertionError"
    ELSE IF /\ {"timestamp", "hostname", "asset_info", "metrics"} \subseteq p.keys
            /\ ValidateAssetInfo(p.asset_info) = "ok"
            /\ ValidateMetricData(p.metrics) = "ok"
    THEN "ok" ELSE "ValidationError"

Validate(ser, doc) ==
    CASE ser = "ServerMetricSerializer" -> ValidateServerMetric(doc)
      [] ser = "AssetInfoSerializer" -> ValidateAssetInfo(doc)
      [] ser = "MetricDataSerializer" -> ValidateMetricData(doc)
      [] ser = "TopProcessesMetricSerializer" -> ValidateTopProcesses(doc)

\* The fields the errors of a ValidationError name as required and missing:
\* a nested serializer field declared without required=False whose key is
\* absent from the data.
RequiredErrors(ser, doc) ==
    LET asset(a) == RequiredAssetKeys \ a.keys
        metric(m) == RequiredMetricKeys \ m.keys
    IN  CASE ser = "AssetInfoSerializer" -> asset(doc)
          [] ser = "MetricDataSerializer" -> metric(doc)
          [] ser = "TopProcessesMetricSerializer" -> {}
          [] ser = "ServerMetricSerializer" ->
               ({"timestamp", "hostname", "asset_info", "metrics"} \ doc.keys)
                 \cup (IF "asset_info" \in doc.keys THEN asset(doc.asset_info) ELSE {})
                 \cup (IF "metrics" \in doc.keys THEN metric(doc.metrics) ELSE {})

-----------------------------------------------------------------------------
(* The create() methods.  Each is the sequence of statements it executes    *)
(* on its validated_data: an insert (Model.objects.create) whose foreign    *)
(* key is the instance a previous statement of the same call returned       *)
(* (ref names its table) or the one validated_data holds (ref = "fk"), or   *)
(* the raise of an exception that ends the call.  The source calls the      *)
(* create() of a nested serializer at lines 244 and 248 only, with a        *)
(* keyword it does not take: its statements are executed only when the      *)
(* serializer is used on its own (SaveNested).                              *)

Ins(kind, ref, name, val) ==
    [op |-> "insert", kind |-> kind, ref |-> ref, name |-> name, val |-> val]

Raise(exc) == [op |-> "raise", kind |-> exc, ref |-> "", name |-> "", val |-> 0]

\* for x in xs: Kind.objects.create(parent=..., **x)
ForEachCreate(kind, ref, xs) == [i \in 1..Len(xs) |-> Ins(kind, ref, xs[i], 0)]

\* for process_data in xs:
\*     ProcessDetail.objects.create(top_processes_metric=..., process_type=t,
\*                                  **process_data)
\* A process_data that holds process_type itself passes the keyword twice.
ForEachProcess(t, xs) ==
    [i \in 1..Len(xs) |->
        IF "process_type" \in xs[i].keys THEN Raise("TypeError")
        ELSE Ins("ProcessDetail", "TopProcessesMetric", t, xs[i].pid)]

AssetInfoSerializer_create(vd) ==
    IF ~ (RequiredAssetKeys \subseteq vd.keys) THEN <<Raise("KeyError")>>
    ELSE <<Ins("AssetInfo", "fk", Pop(vd, "hostname", ""), 0),
           Ins("OSInfo", "AssetInfo", "", 0),
           Ins("SystemInfo", "AssetInfo", "", 0),
           Ins("CPUInfo", "AssetInfo", "", 0),
           Ins("MemoryInfo", "AssetInfo", "", 0),
           Ins("VirtualizationInfo", "AssetInfo", "", 0)>>
         \o ForEachCreate("DiskInfo", "AssetInfo", Pop(vd, "disks", <<>>))
         \o ForEachCreate("NetworkInterfaceInfo", "AssetInfo",
                          Pop(vd, "network_interfaces", <<>>))
         \o ForEachCreate("WindowsUpdate", "AssetInfo",
                          Pop(vd, "windows_updates", <<>>))

TopProcessesMetricSerializer_create(vd) ==
    <<Ins("TopProcessesMetric", "fk", "", 0)>>
      \o ForEachProcess("cpu", Pop(vd, "by_cpu", <<>>))
      \o ForEachProcess("memory", Pop(vd, "by_memory", <<>>))

\* The model class takes top_processes_data as keyword arguments: by_cpu and
\* by_memory are no fields of TopProcessesMetric.
MetricDataSerializer_create(vd) ==
    IF ~ (RequiredMetricKeys \subseteq vd.keys) THEN <<Raise("KeyError")>>
    ELSE <<Ins("MetricData", "fk", "", 0),
           IF Quantize(vd.memory_usage.percentage_used, 5).exc # ""
           THEN Raise(Quantize(vd.memory_usage.percentage_used, 5).exc)
           ELSE Ins("MemoryUsageMetric", "MetricData", "",
                    Quantize(vd.memory_usage.percentage_used, 5).value),
           Ins("CPULoadMetric", "MetricData", "", 0),
           Ins("NetworkUsageMetric", "MetricData", "", 0),
           IF vd.top_processes.keys \cap {"by_cpu", "by_memory"} # {}
           THEN Raise("TypeError")
           ELSE Ins("TopProcessesMetric", "MetricData", "", 0)>>
         \o ForEachCreate("DiskUsageMetric", "MetricData", Pop(vd, "disk_usage", <<>>))
         \o ForEachCreate("TopDiskConsumerMetric", "MetricData",
                          Pop(vd, "top_disk_consumers", <<>>))

\* After the ServerMetric row the nested AssetInfoSerializer validates the
\* asset document again; create() of the nested serializer is then called
\* with a server_metric keyword it does not take.
ServerMetricSerializer_create(vd) ==
    IF ~ ({"asset_info", "metrics"} \subseteq vd.keys) THEN <<Raise("KeyError")>>
    ELSE <<Ins("ServerMetric", "", vd.hostname, vd.timestamp),
           IF ValidateAssetInfo(vd.asset_info) # "ok"
           THEN Raise(ValidateAssetInfo(vd.asset_info))
           ELSE Raise("TypeError")>>

Create(ser, vd) ==
    CASE ser = "ServerMetricSerializer" -> ServerMetricSerializer_create(vd)
      [] ser = "AssetInfoSerializer" -> AssetInfoSerializer_create(vd)
      [] ser = "MetricDataSerializer" -> MetricDataSerializer_create(vd)
      [] ser = "TopProcessesMetricSerializer" -> TopProcessesMetricSerializer_create(vd)

-----------------------------------------------------------------------------
(* The store *)

Row(kind, id, parent, name, val, by) ==
    [kind |-> kind, id |-> id, parent |-> parent, name |-> name, val |-> val,
     by |-> by]

Rows(s, kind) == {x \in s : x.kind = kind}

\* The constraint an INSERT violates, "" if none: the foreign key is null,
\* or names no row of the parent table, or a one-to-one key or a
\* unique_together pair is taken.
Violated(s, kind, parent, name) ==
    IF ParentKind(kind) # "" /\ parent = NULL THEN "NOT NULL"
    ELSE IF ParentKind(kind) # ""
            /\ ~ \E x \in Rows(s, ParentKind(kind)) : x.id = parent
    THEN "FOREIGN KEY"
    ELSE IF \/ kind \in OneToOneKinds /\ \E x \in Rows(s, kind) : x.parent = parent
            \/ kind \in UniqueTogetherKinds
                 /\ \E x \in Rows(s, kind) : x.parent = parent /\ x.name = name
    THEN "UNIQUE"
    ELSE ""

\* The database accepts the INSERT.
CanInsert(s, kind, parent, name) == Violated(s, kind, parent, name) = ""

\* What a failed request leaves of the rows it wrote: the source opens no
\* transaction around create(), so every row already inserted stays.
OnFailure(s, r) == s

\* The kinds of row a complete snapshot owns one of each.
AssetOneToOne ==
    {"OSInfo", "SystemInfo", "CPUInfo", "MemoryInfo", "VirtualizationInfo"}

MetricOneToOne ==
    {"MemoryUsageMetric", "CPULoadMetric", "NetworkUsageMetric", "TopProcessesMetric"}

\* A snapshot row with its complete required subtree: one AssetInfo with its
\* five one-to-one children and one MetricData with its four.
Complete(s, snap) ==
    /\ \E a \in Rows(s, "AssetInfo") :
          /\ a.parent = snap.id
          /\ \A k \in AssetOneToOne : \E x \in Rows(s, k) : x.parent = a.id
    /\ \E m \in Rows(s, "MetricData") :
          /\ m.parent = snap.id
          /\ \A k \in MetricOneToOne : \E x \in Rows(s, k) : x.parent = m.id

\* Rendering a snapshot (serializer.data): a missing one-to-one object is
\* rendered as null; an existing SystemInfo is rendered by
\* SystemInfoSerializer, whose fields cannot be built.
Renders(s, snap) ==
    ~ \E a \in Rows(s, "AssetInfo") :
          /\ a.parent = snap.id
          /\ \E x \in Rows(s, "SystemInfo") : x.parent = a.id
          /\ ValidateSystemInfo # "ok"

-----------------------------------------------------------------------------
(* Rendering: serializer.data of a stored snapshot, as a document of the    *)
(* shape of the input documents.  `keys` holds the keys whose value is not   *)
(* null; a list field is always rendered, empty if it has no row.            *)

IdLess(a, b) == a[1] < b[1] \/ (a[1] = b[1] /\ a[2] < b[2])

\* A set of rows as the list the related manager returns: no model of a list
\* table declares an ordering, the rows come in primary-key order.  The rows
\* under one parent are inserted by the create() call that inserted the
\* parent, so this is the order of their insertion.
RECURSIVE InPkOrder(_)
InPkOrder(S) ==
    IF S = {} THEN <<>>
    ELSE LET m == CHOOSE x \in S : \A y \in S \ {x} : IdLess(x.id, y.id)
         IN  <<m>> \o InPkOrder(S \ {m})

Children(s, kind, parent) == {x \in Rows(s, kind) : x.parent = parent}

\* The names of the rows of a list table under one parent.
NamesOf(s, kind, parent) ==
    LET xs == InPkOrder(Children(s, kind, parent))
    IN  [i \in 1..Len(xs) |-> xs[i].name]

\* The field of AssetInfoSerializer / MetricDataSerializer of each table.
FieldOf(kind) ==
    CASE kind = "OSInfo" -> "os"
      [] kind = "SystemInfo" -> "system"
      [] kind = "CPUInfo" -> "cpu"
      [] kind = "MemoryInfo" -> "memory"
      [] kind = "VirtualizationInfo" -> "virtualization"
      [] kind = "MemoryUsageMetric" -> "memory_usage"
      [] kind = "CPULoadMetric" -> "cpu_load"
      [] kind = "NetworkUsageMetric" -> "network_usage"
      [] kind = "TopProcessesMetric" -> "top_processes"

\* AssetInfoSerializer.to_representation
AssetRepresentation(s, a) ==
    AssetDoc({FieldOf(k) : k \in {k \in AssetOneToOne : Children(s, k, a.id) # {}}}
                 \cup {"disks", "network_interfaces", "windows_updates"},
             NamesOf(s, "DiskInfo", a.id),
             NamesOf(s, "NetworkInterfaceInfo", a.id),
             NamesOf(s, "WindowsUpdate", a.id))

\* TopProcessesMetricSerializer.to_representation: id and metrics_data are
\* excluded, by_cpu and by_memory are write_only, and the model has no other
\* field: the object is rendered empty, whatever ProcessDetail rows it owns.
TopProcessesRepresentation(s, t) == TopProcessesDoc({}, <<>>, <<>>)

\* MetricDataSerializer.to_representation.  The percentage is rendered with
\* two decimal places.
MetricRepresentation(s, m) ==
    LET mu == Children(s, "MemoryUsageMetric", m.id)
        tp == Children(s, "TopProcessesMetric", m.id)
    IN  MetricDoc({FieldOf(k) : k \in {k \in MetricOneToOne : Children(s, k, m.id) # {}}}
                      \cup {"disk_usage", "top_disk_consumers"},
                  MemoryUsageDoc(IF mu = {} THEN Dec(0, 0)
                                 ELSE Dec((CHOOSE x \in mu : TRUE).val, 2)),
                  IF tp = {} THEN TopProcessesDoc({}, <<>>, <<>>)
                  ELSE TopProcessesRepresentation(s, CHOOSE x \in tp : TRUE),
                  NamesOf(s, "DiskUsageMetric", m.id),
                  NamesOf(s, "TopDiskConsumerMetric", m.id))

\* ServerMetricSerializer.to_representation (fields = '__all__': the id is
\* rendered too; it is no key of an input document and is left out here).
\* A missing one-to-one object is rendered as null: its key is not in keys
\* and its value is the empty document.
ToRepresentation(s, snap) ==
    LET as == Children(s, "AssetInfo", snap.id)
        ms == Children(s, "MetricData", snap.id)
    IN  [keys |-> {"timestamp", "hostname"}
                    \cup (IF as = {} THEN {} ELSE {"asset_info"})
                    \cup (IF ms = {} THEN {} ELSE {"metrics"}),
         timestamp |-> snap.val,
         hostname |-> snap.name,
         asset_info |-> IF as = {} THEN AssetDoc({}, <<>>, <<>>, <<>>)
                        ELSE AssetRepresentation(s, CHOOSE x \in as : TRUE),
         metrics |-> IF ms = {}
                     THEN MetricDoc({}, MemoryUsageDoc(Dec(0, 0)),
                                    TopProcessesDoc({}, <<>>, <<>>), <<>>, <<>>)
                     ELSE MetricRepresentation(s, CHOOSE x \in ms : TRUE)]

\* GET /snapshots/{id}: RetrieveModelMixin.retrieve.  404 if there is no such
\* row, 500 if the rendering raises (see Renders), else 200 and the document.
RetrieveResponse(s, id) ==
    LET found == {x \in Rows(s, "ServerMetric") : x.id = id}
        snap == CHOOSE x \in found : TRUE
    IN  IF found = {} THEN [code |-> 404, body |-> <<>>]
        ELSE IF ~ Renders(s, snap) THEN [code |-> 500, body |-> <<>>]
        ELSE [code |-> 200, body |-> <<ToRepresentation(s, snap)>>]

-----------------------------------------------------------------------------
(* Requests.  Every request is a sequence of statements against the          *)
(* database, executed one per step; the statements of other requests may     *)
(* run between two of them.                                                   *)

\* The tables whose instance a request keeps in a local variable.
LocalKinds == {"ServerMetric", "AssetInfo", "MetricData", "TopProcessesMetric"}

IdleReq ==
    [entry |-> "", ser |-> "", payload |-> "", fk |-> NULL, plan |-> <<>>,
     made |-> [k \in LocalKinds |-> NULL], n |-> 0, rows |-> <<>>, out |-> <<>>,
     query |-> [keys |-> {}, hostname |-> "", timestamp |-> 0,
                timestamp_gte |-> 0, timestamp_lte |-> 0],
     status |-> "idle", exc |-> "", detail |-> ""]

Init ==
    /\ store = {}
    /\ req = [r \in Reqs |-> IdleReq]

\* Snapshots in the table before the first request: rows the database was
\* given by other means than this API (its own create never completes), as
\* Model.objects.create(timestamp=..., hostname=...) leaves them: two hosts,
\* the older Snapshot with the smaller id.
Stored ==
    {Row("ServerMetric", <<0, 1>>, NULL, "web01", 1, 0),
     Row("ServerMetric", <<0, 2>>, NULL, "db01", 2, 0)}

InitStored ==
    /\ store = Stored
    /\ req = [r \in Reqs |-> IdleReq]

\* Requests are numbered in the order they arrive.
CanStart(r) ==
    /\ req[r].status = "idle"
    /\ r > 1 => req[r - 1].status # "idle"
    /\ Cardinality({x \in Reqs : req[x].status = "running"}) < MaxRunning

\* While it runs, req[r] holds what was called (entry, ser, payload), the
\* parent instance save() was given (fk; none for a request to the viewset),
\* the statements still to execute (plan), the instances held in local
\* variables (made), the number of rows inserted (n), the rows a query
\* returned (rows), the documents rendered so far (out) and the query
\* parameters of a list (query).  Once the request
\* has ended only what was called and its outcome are kept: the entry, the
\* status, the exception (exc) and, for an IntegrityError, the constraint the
\* database names in it (detail).

\* serializer.is_valid(raise_exception=True), as a statement of a request.
IsValid == [op |-> "is_valid", kind |-> "is_valid", ref |-> "", name |-> "", val |-> 0]

\* A request that has just arrived and validates its document first.
Started(entry, ser, pn, fk) ==
    [IdleReq EXCEPT !.entry = entry, !.ser = ser, !.payload = pn, !.fk = fk,
                    !.plan = <<IsValid>>,
                    !.status = "running"]

\* The request q once it has ended.
Ended(q, status, exc, detail) ==
    [IdleReq EXCEPT !.entry = q.entry,
                    !.status = status, !.exc = exc, !.detail = detail]

\* The foreign key of the row a statement of request q inserts: the instance
\* save() has merged into validated_data, or one the same create() has made.
ParentOf(q, i) ==
    IF i.ref = "fk" THEN q.fk
    ELSE IF i.ref = "" THEN NULL ELSE q.made[i.ref]

\* POST /snapshots: CreateModelMixin.create of ServerMetricViewSet:
\* serializer.is_valid(raise_exception=True), then serializer.save().
PostSnapshot(r, pn) ==
    /\ CanStart(r)
    /\ req' = [req EXCEPT ![r] = Started("post", "ServerMetricSerializer", pn, NULL)]
    /\ UNCHANGED store

\* The nested serializers whose validation is looked at on its own.
ValidatedAlone == {"TopProcessesMetricSerializer"}

\* Serializer(data=doc).is_valid(raise_exception=True) of a nested serializer
\* on the part of a document that is its data: the validation the snapshot
\* serializer runs on that part, without the parts validated before it.
\* Nothing is saved.
ValidateNested(r, ser, pn) ==
    /\ CanStart(r)
    /\ ser \in ValidatedAlone
    /\ pn \in PayloadsFor(ser)
    /\ req' = [req EXCEPT ![r] = Started("is_valid", ser, pn, NULL)]
    /\ UNCHANGED store

\* The serializers nested in the snapshot serializer.
NestedSerializers ==
    {"AssetInfoSerializer", "MetricDataSerializer", "TopProcessesMetricSerializer"}

\* The table of the instance a serializer's create returns.
ModelOf(ser) ==
    CASE ser = "ServerMetricSerializer" -> "ServerMetric"
      [] ser = "AssetInfoSerializer" -> "AssetInfo"
      [] ser = "MetricDataSerializer" -> "MetricData"
      [] ser = "TopProcessesMetricSerializer" -> "TopProcessesMetric"

\* A nested serializer used on its own, as no route of the source does:
\* Serializer(data=doc).is_valid(raise_exception=True), then
\* .save(parent=instance) with an instance of the parent model that is in
\* the store s; save() merges the keyword into validated_data and calls
\* create().
SaveNested(r, ser, pn, parent) ==
    /\ CanStart(r)
    /\ ser \in NestedSerializers
    /\ pn \in PayloadsFor(ser)
    /\ parent \in Rows(store, ParentKind(ModelOf(ser)))
    /\ req' = [req EXCEPT ![r] = Started("save", ser, pn, parent.id)]
    /\ UNCHANGED store

-----------------------------------------------------------------------------
(* Reading.  Rendering a Snapshot (serializer.data) reads the related rows   *)
(* field by field, each with a SELECT of its own: asset_info, then os,        *)
(* system, cpu, memory, virtualization, disks, network_interfaces and         *)
(* windows_updates of the AssetInfo found, then metrics and memory_usage,     *)
(* cpu_load, network_usage, top_processes, disk_usage and top_disk_consumers  *)
(* of the MetricData found.  The queryset of the viewset prefetches nothing.  *)

\* Start the rendering of the i-th row of the queryset.
Begin(i) == [op |-> "begin", kind |-> "ServerMetric", ref |-> "", name |-> "", val |-> i]

\* field.get_attribute(instance): the SELECT of the related rows of one field.
Get(kind) ==
    [op |-> "get", kind |-> kind, ref |-> ParentKind(kind), name |-> "", val |-> 0]

\* return Response(serializer.data)
Respond == [op |-> "respond", kind |-> "", ref |-> "", name |-> "", val |-> 0]

\* The fields of AssetInfoSerializer and of MetricDataSerializer that read
\* related rows, in the order they are rendered.
AssetFields ==
    <<"OSInfo", "SystemInfo", "CPUInfo", "MemoryInfo", "VirtualizationInfo",
      "DiskInfo", "NetworkInterfaceInfo", "WindowsUpdate">>

MetricFields ==
    <<"MemoryUsageMetric", "CPULoadMetric", "NetworkUsageMetric",
      "TopProcessesMetric", "DiskUsageMetric", "TopDiskConsumerMetric">>

\* The field of the list serializers of each table.
ListFieldOf(kind) ==
    CASE kind = "DiskInfo" -> "disks"
      [] kind = "NetworkInterfaceInfo" -> "network_interfaces"
      [] kind = "WindowsUpdate" -> "windows_updates"
      [] kind = "DiskUsageMetric" -> "disk_usage"
      [] kind = "TopDiskConsumerMetric" -> "top_disk_consumers"

\* The document of a Snapshot row before any related row has been read.
EmptyRepresentation(row) ==
    [keys |-> {"timestamp", "hostname"},
     timestamp |-> row.val,
     hostname |-> row.name,
     asset_info |-> AssetDoc({}, <<>>, <<>>, <<>>),
     metrics |-> MetricDoc({}, MemoryUsageDoc(Dec(0, 0)),
                           TopProcessesDoc({}, <<>>, <<>>), <<>>, <<>>)]

\* The document under construction after the field of table `kind` has been
\* read in the store s; parent is the instance the field belongs to.
WithField(s, doc, kind, parent) ==
    LET found == Children(s, kind, parent)
        part == IF ParentKind(kind) = "AssetInfo" THEN "asset_info" ELSE "metrics"
    IN  IF kind \in {"AssetInfo", "MetricData"}
        THEN IF found = {} THEN doc
             ELSE [doc EXCEPT !.keys = @ \cup {IF kind = "AssetInfo"
                                              THEN "asset_info" ELSE "metrics"}]
        ELSE IF kind \in AssetOneToOne \cup MetricOneToOne
        THEN IF found = {} THEN doc
             ELSE IF kind = "MemoryUsageMetric"
             THEN [doc EXCEPT !.metrics.keys = @ \cup {FieldOf(kind)},
                              !.metrics.memory_usage =
                                  MemoryUsageDoc(Dec((CHOOSE x \in found : TRUE).val, 2))]
             ELSE IF kind = "TopProcessesMetric"
             THEN [doc EXCEPT !.metrics.keys = @ \cup {FieldOf(kind)},
                              !.metrics.top_processes =
                                  TopProcessesRepresentation(s, CHOOSE x \in found : TRUE)]
             ELSE [doc EXCEPT ![part].keys = @ \cup {FieldOf(kind)}]
        ELSE [doc EXCEPT ![part].keys = @ \cup {ListFieldOf(kind)},
                         ![part][ListFieldOf(kind)] = NamesOf(s, kind, parent)]

\* One statement of a rendering request q in the store s: the request after
\* it.  Rendering an existing SystemInfo builds the fields of
\* SystemInfoSerializer, which raises.
ReadStep(s, q) ==
    LET i == Head(q.plan)
        rest == Tail(q.plan)
    IN  CASE i.op = "begin" ->
               [q EXCEPT !.plan = <<Get("AssetInfo"), Get("MetricData")>> \o rest,
                         !.made = [k \in LocalKinds |->
                                      IF k = "ServerMetric" THEN q.rows[i.val].id
                                      ELSE NULL],
                         !.out = Append(q.out, EmptyRepresentation(q.rows[i.val]))]
          [] i.op = "get" ->
               LET parent == q.made[i.ref]
                   found == Children(s, i.kind, parent)
                   doc == WithField(s, q.out[Len(q.out)], i.kind, parent)
                   nested == IF found = {} THEN <<>>
                             ELSE IF i.kind = "AssetInfo"
                             THEN [j \in 1..Len(AssetFields) |-> Get(AssetFields[j])]
                             ELSE IF i.kind = "MetricData"
                             THEN [j \in 1..Len(MetricFields) |-> Get(MetricFields[j])]
                             ELSE <<>>
               IN  IF i.kind = "SystemInfo" /\ found # {} /\ ValidateSystemInfo # "ok"
                   THEN Ended(q, "failed", ValidateSystemInfo, "")
                   ELSE [q EXCEPT !.plan = nested \o rest,
                                  !.made = IF i.kind \in LocalKinds /\ found # {}
                                           THEN [q.made EXCEPT ![i.kind] =
                                                    (CHOOSE x \in found : TRUE).id]
                                           ELSE q.made,
                                  !.out = [q.out EXCEPT ![Len(q.out)] = doc]]
          [] i.op = "respond" -> Ended(q, "done", "", "")

\* A rendering request executed to its response in one store, no other
\* request running in between: the request as it stands before it responds,
\* or as it has failed.
RECURSIVE Run(_, _)
Run(s, q) ==
    IF q.status # "running" \/ Head(q.plan).op = "respond" THEN q
    ELSE Run(s, ReadStep(s, q))

\* A request that renders the rows of a queryset, one after the other.
Rendering(entry, rows) ==
    [IdleReq EXCEPT !.entry = entry, !.rows = rows,
                    !.plan = [i \in 1..Len(rows) |-> Begin(i)] \o <<Respond>>,
                    !.status = "running"]

-----------------------------------------------------------------------------
(* The snapshot viewset: list, destroy, partial_update, update *)

\* The lower case of the hostnames of the model (iexact compares without
\* regard to case).
Lower(h) ==
    CASE h = "WEB01" -> "web01"
      [] h = "DB01" -> "db01"
      [] OTHER -> h

\* The query parameters of GET /snapshots: keys holds the parameters that
\* are supplied.
Query(keys, hostname, timestamp, gte, lte) ==
    [keys |-> keys, hostname |-> hostname, timestamp |-> timestamp,
     timestamp_gte |-> gte, timestamp_lte |-> lte]

NoQuery == Query({}, "", 0, 0, 0)

\* Every combination of hostname=WEB01, timestamp_gte=2 and timestamp_lte=1,
\* and timestamp=2 alone.
Queries ==
    {Query(keys, "WEB01", 2, 2, 1) :
        keys \in SUBSET {"hostname", "timestamp_gte", "timestamp_lte"}}
      \cup {Query({"timestamp"}, "WEB01", 2, 2, 1)}

\* ServerMetric.objects.all().order_by('-timestamp'): the orders the database
\* may return the rows in.  There is no second sort key: rows of one
\* timestamp come in any order.
NewestFirst(S) ==
    {qs \in [1..Cardinality(S) -> S] :
        /\ \A x \in S : \E i \in DOMAIN qs : qs[i] = x
        /\ \A i, j \in DOMAIN qs : i < j => qs[i].val >= qs[j].val}

\* The settings module is not among the sources; with the django-filter setup
\* the comment of views.py (lines 10-14) assumes, and the specification
\* describes, the filter backend is set for every view.
DEFAULT_FILTER_BACKENDS == {"DjangoFilterBackend"}

\* A filter on the host name with lookup_expr='exact'.
hostname_exact(qs, value) == SelectSeq(qs, LAMBDA x : x.name = value)

\* ServerMetricFilter: each supplied parameter filters the queryset in turn.
\* Meta.fields adds the exact filter on timestamp.
hostname(qs, value) == SelectSeq(qs, LAMBDA x : Lower(x.name) = Lower(value))

timestamp(qs, value) == SelectSeq(qs, LAMBDA x : x.val = value)

timestamp_gte(qs, value) == SelectSeq(qs, LAMBDA x : x.val >= value)

timestamp_lte(qs, value) == SelectSeq(qs, LAMBDA x : x.val <= value)

ServerMetricFilter(qs, q) ==
    LET a == IF "hostname" \in q.keys THEN hostname(qs, q.hostname) ELSE qs
        b == IF "timestamp" \in q.keys THEN timestamp(a, q.timestamp) ELSE a
        c == IF "timestamp_gte" \in q.keys THEN timestamp_gte(b, q.timestamp_gte)
             ELSE b
    IN  IF "timestamp_lte" \in q.keys THEN timestamp_lte(c, q.timestamp_lte) ELSE c

\* filter_queryset(get_queryset()) of ServerMetricViewSet, evaluated: the
\* sequences of rows the one SELECT of a list may return in the store s.
FilterQueryset(s, q) ==
    {IF "DjangoFilterBackend" \in DEFAULT_FILTER_BACKENDS
     THEN ServerMetricFilter(qs, q) ELSE qs :
        qs \in NewestFirst(Rows(s, "ServerMetric"))}

\* GET /snapshots?...: ListModelMixin.list.  The request arrives and selects
\* the rows; it then renders them one by one (see Reading) and responds.
FilterSnapshots(r, q) ==
    /\ CanStart(r)
    /\ \E rows \in FilterQueryset(store, q) :
          req' = [req EXCEPT ![r] = [Rendering("list", rows) EXCEPT !.query = q]]
    /\ UNCHANGED store

\* GET /snapshots without parameters.
ListSnapshots(r) == FilterSnapshots(r, NoQuery)

\* The response a list request q that has rendered its rows is about to
\* give.  partial: it shows a Snapshot without its whole required subtree.
ListResponse(q) ==
    [code |-> 200,
     results |-> q.out,
     partial |-> \E i \in 1..Len(q.out) :
                    \/ ~ ({"asset_info", "metrics"} \subseteq q.out[i].keys)
                    \/ ~ (RequiredAssetKeys \subseteq q.out[i].asset_info.keys)
                    \/ ~ (RequiredMetricKeys \subseteq q.out[i].metrics.keys)]

\* Collector.collect: the SELECT of the rows of one table that reference the
\* rows collected so far.  The tables without dependent rows are not
\* selected: their rows are deleted by their foreign key (fast delete).
Collect(kind) ==
    [op |-> "collect", kind |-> kind, ref |-> ParentKind(kind), name |-> "", val |-> 0]

\* Collector.delete: the DELETE statements, in one transaction.
DeleteCollected ==
    [op |-> "delete", kind |-> "ServerMetric", ref |-> "", name |-> "", val |-> 0]

\* The tables Collector.collect selects from.
CollectedKinds == {"AssetInfo", "MetricData", "TopProcessesMetric"}

\* One SELECT of the collector of request q in the store s.
CollectStep(s, q) ==
    LET i == Head(q.plan)
        parents == {q.rows[j].id : j \in {j \in 1..Len(q.rows) : q.rows[j].kind = i.ref}}
        found == {x \in Rows(s, i.kind) : x.parent \in parents}
    IN  [q EXCEPT !.rows = q.rows \o InPkOrder(found),
                  !.plan = (IF i.kind = "MetricData" /\ found # {}
                            THEN <<Collect("TopProcessesMetric")>> ELSE <<>>)
                             \o Tail(q.plan)]

\* The store after the DELETE statements of a collector that holds `rows`:
\* the rows of the other tables that reference a collected row go, then the
\* collected rows, by primary key.
AfterDelete(s, rows) ==
    LET Collected(kind, id) ==
            \E j \in 1..Len(rows) : rows[j].kind = kind /\ rows[j].id = id
    IN  {x \in s :
            /\ ~ Collected(x.kind, x.id)
            /\ ~ (/\ x.kind \notin CollectedKinds \cup {"ServerMetric"}
                  /\ Collected(ParentKind(x.kind), x.parent))}

\* A row whose foreign key names no row: the transaction that leaves one
\* cannot commit.
Orphans(s) ==
    {x \in s : /\ ParentKind(x.kind) # ""
               /\ ~ \E p \in Rows(s, ParentKind(x.kind)) : p.id = x.parent}

\* The identifiers a request may name in its URL: those of the Snapshots in
\* the store s and those of the Snapshots the tables may hold at the start,
\* be they there or not.
SnapshotIds(s) == {x.id : x \in Rows(s, "ServerMetric")} \cup {x.id : x \in Stored}

\* get_object(): the Snapshot with the id of the URL, none (Http404) if the
\* queryset holds no such row.
get_object(s, id) == {x \in Rows(s, "ServerMetric") : x.id = id}

\* DELETE /snapshots/{id}: DestroyModelMixin.destroy.  get_object() selects
\* the row; instance.delete() collects the dependent rows and deletes.
DeleteSnapshot(r, id) ==
    /\ CanStart(r)
    /\ req' = [req EXCEPT ![r] =
                  IF get_object(store, id) = {}
                  THEN Ended([IdleReq EXCEPT !.entry = "delete"],
                             "failed", "Http404", "")
                  ELSE [IdleReq EXCEPT
                          !.entry = "delete",
                          !.rows = <<CHOOSE x \in get_object(store, id) : TRUE>>,
                          !.plan = <<Collect("AssetInfo"), Collect("MetricData"),
                                     DeleteCollected>>,
                          !.status = "running"]]
    /\ UNCHANGED store

\* instance.save() of ModelSerializer.update, its first statement: UPDATE
\* ... WHERE id = pk.  field is the attribute the request data sets.
Update(field, h, t) ==
    [op |-> "update", kind |-> "ServerMetric", ref |-> field, name |-> h, val |-> t]

\* The instance get_object() returned, with the attribute of the request set.
Updated(row, i) ==
    IF i.ref = "hostname" THEN [row EXCEPT !.name = i.name]
    ELSE [row EXCEPT !.val = i.val]

\* instance.save(), its second statement: the INSERT of the instance, when
\* the UPDATE has matched no row.  save() opens no transaction around the
\* two: statements of other requests run in between.
SaveInsert ==
    [op |-> "save_insert", kind |-> "ServerMetric", ref |-> "", name |-> "", val |-> 0]

\* The rows with the primary key of an instance.
WithPk(s, row) == {x \in s : x.kind = row.kind /\ x.id = row.id}

\* UPDATE ... WHERE id = pk with every column of the instance.
AfterUpdate(s, row) == (s \ WithPk(s, row)) \cup {row}

PatchHostnames == {"renamed"}

PatchTimestamps == {3}

\* The request data of the partial updates of the model.
Patches ==
    {Update("hostname", h, 0) : h \in PatchHostnames}
      \cup {Update("timestamp", "", t) : t \in PatchTimestamps}

\* PATCH /snapshots/{id}: ModelViewSet.partial_update.  get_object() selects
\* the row; no nested document is in the data, so ModelSerializer.update
\* saves the instance; the response renders it.
PatchSnapshot(r, id, patch) ==
    /\ CanStart(r)
    /\ req' = [req EXCEPT ![r] =
                  IF get_object(store, id) = {}
                  THEN Ended([IdleReq EXCEPT !.entry = "patch"],
                             "failed", "Http404", "")
                  ELSE [IdleReq EXCEPT
                          !.entry = "patch",
                          !.rows = <<CHOOSE x \in get_object(store, id) : TRUE>>,
                          !.plan = <<patch, Begin(1), Respond>>,
                          !.status = "running"]]
    /\ UNCHANGED store

\* The response to PUT /snapshots/{id} with a whole document: 404 without
\* the Snapshot; else the validation fails as for POST (and update() refuses
\* nested documents).
PutResponse(s, id, pn) ==
    IF get_object(s, id) = {} THEN 404
    ELSE IF ValidateServerMetric(Payload(pn)) = "ValidationError" THEN 400 ELSE 500

\* PUT /snapshots/{id}: ModelViewSet.update; nothing is written.
PutSnapshot(id, pn) ==
    /\ PutResponse(store, id, pn) \in {400, 404, 500}
    /\ UNCHANGED vars

\* The next statement of a running request.
Step(r) ==
    /\ req[r].status = "running"
    /\ LET q == req[r]
           i == Head(q.plan)
           doc == SubDoc(q.ser, Payload(q.payload))
           parent == ParentOf(q, i)
           id == <<r, q.n + 1>>
       IN  IF i.op \in {"begin", "get", "respond"}
           THEN /\ store' = store
                /\ req' = [req EXCEPT ![r] = ReadStep(store, q)]
           ELSE IF i.op = "collect"
           THEN /\ store' = store
                /\ req' = [req EXCEPT ![r] = CollectStep(store, q)]
           ELSE IF i.op = "delete"
           THEN IF Orphans(AfterDelete(store, q.rows)) = {}
                THEN /\ store' = AfterDelete(store, q.rows)
                     /\ req' = [req EXCEPT ![r] = Ended(q, "done", "", "")]
                ELSE /\ store' = store
                     /\ req' = [req EXCEPT ![r] =
                                   Ended(q, "failed", "IntegrityError", "FOREIGN KEY")]
           ELSE IF i.op = "update"
           THEN IF WithPk(store, q.rows[1]) # {}
                THEN /\ store' = AfterUpdate(store, Updated(q.rows[1], i))
                     /\ req' = [req EXCEPT ![r] =
                                   [q EXCEPT !.rows = <<Updated(q.rows[1], i)>>,
                                             !.plan = Tail(q.plan)]]
                ELSE /\ store' = store
                     /\ req' = [req EXCEPT ![r] =
                                   [q EXCEPT !.rows = <<Updated(q.rows[1], i)>>,
                                             !.plan = <<SaveInsert>> \o Tail(q.plan)]]
           ELSE IF i.op = "save_insert"
           THEN IF WithPk(store, q.rows[1]) = {}
                THEN /\ store' = store \cup {q.rows[1]}
                     /\ req' = [req EXCEPT ![r] = [q EXCEPT !.plan = Tail(q.plan)]]
                ELSE /\ store' = store
                     /\ req' = [req EXCEPT ![r] =
                                   Ended(q, "failed", "IntegrityError", "UNIQUE")]
           ELSE IF i.op = "is_valid" /\ Validate(q.ser, doc) = "ok"
           THEN /\ store' = store
                /\ req' = [req EXCEPT ![r] =
                              IF q.entry = "is_valid" THEN Ended(q, "done", "", "")
                              ELSE [q EXCEPT !.plan = Create(q.ser, doc)]]
           ELSE IF i.op = "insert" /\ CanInsert(store, i.kind, parent, i.name)
           THEN /\ store' = store \cup {Row(i.kind, id, parent, i.name, i.val, r)}
                /\ req' = [req EXCEPT ![r] =
                              IF Tail(q.plan) = <<>>
                              THEN Ended(q, "done", "", "")
                              ELSE [q EXCEPT !.plan = Tail(q.plan),
                                             !.n = q.n + 1,
                                             !.made = IF i.kind \in LocalKinds
                                                      THEN [q.made EXCEPT ![i.kind] = id]
                                                      ELSE q.made]]
           ELSE /\ store' = OnFailure(store, r)
                /\ req' = [req EXCEPT ![r] =
                              Ended(q, "failed",
                                    CASE i.op = "is_valid" -> Validate(q.ser, doc)
                                      [] i.op = "raise" -> i.kind
                                      [] OTHER -> "IntegrityError",
                                    IF i.op = "insert"
                                    THEN Violated(store, i.kind, parent, i.name)
                                    ELSE "")]

\* The HTTP status of a finished request to the viewset: 201 for a POST, 204
\* for a DELETE, 200 for a PATCH and a list; 400 for a ValidationError, 404
\* for a Snapshot that is not there, 500 for any other exception.  A
\* serializer used on its own gives no response (0).
Http(q) ==
    IF q.entry \in {"is_valid", "save"} THEN 0
    ELSE IF q.status = "done"
    THEN CASE q.entry = "post" -> 201
           [] q.entry = "delete" -> 204
           [] OTHER -> 200
    ELSE IF q.exc = "ValidationError" THEN 400
    ELSE IF q.exc = "Http404" THEN 404 ELSE 500

Next ==
    \/ \E r \in Reqs, pn \in PayloadNames \cup PercentPayloads : PostSnapshot(r, pn)
    \/ \E r \in Reqs, ser \in ValidatedAlone, pn \in PayloadNames :
          ValidateNested(r, ser, pn)
    \/ \E r \in Reqs : Step(r)
    \/ \E r \in Reqs : ListSnapshots(r)
    \/ \E r \in Reqs, q \in Queries : FilterSnapshots(r, q)
    \/ \E r \in Reqs, id \in SnapshotIds(store) : DeleteSnapshot(r, id)
    \/ \E r \in Reqs, id \in SnapshotIds(store), patch \in Patches :
          PatchSnapshot(r, id, patch)
    \/ \E id \in SnapshotIds(store), pn \in PayloadNames : PutSnapshot(id, pn)

\* The API over empty tables.
Spec == Init /\ [][Next]_vars

\* The API over tables that hold Snapshots already.
SpecStored == InitStored /\ [][Next]_vars

\* The nested serializers used on their own, over tables that hold Snapshots
\* already; the rows they write are listed and deleted through the API.
NextSerializers ==
    \/ \E r \in Reqs, ser \in NestedSerializers, pn \in PayloadNames \cup PercentPayloads :
          \E parent \in Rows(store, ParentKind(ModelOf(ser))) :
             SaveNested(r, ser, pn, parent)
    \/ \E r \in Reqs : Step(r)
    \/ \E r \in Reqs : ListSnapshots(r)
    \/ \E r \in Reqs, id \in SnapshotIds(store) : DeleteSnapshot(r, id)

SpecSerializers == InitStored /\ [][NextSerializers]_vars

-----------------------------------------------------------------------------
(* The properties *)

Finished(q) == q.status \in {"done", "failed"}

WrittenBy(r) == {x \in store : x.by = r}

NoDuplicates(xs) == \A i, j \in 1..Len(xs) : xs[i] = xs[j] => i = j

\* A valid ingestion document as section 4.1 of the specification has it:
\* the required objects are present, the list fields may be absent, a process
\* entry needs no process_type; and no name is listed twice, so that no
\* constraint can fail at write time.
SpecValid(p) ==
    /\ {"timestamp", "hostname", "asset_info", "metrics"} \subseteq p.keys
    /\ RequiredAssetKeys \subseteq p.asset_info.keys
    /\ RequiredMetricKeys \subseteq p.metrics.keys
    /\ NoDuplicates(Pop(p.asset_info, "disks", <<>>))
    /\ NoDuplicates(Pop(p.asset_info, "network_interfaces", <<>>))
    /\ NoDuplicates(Pop(p.metrics, "disk_usage", <<>>))
    /\ NoDuplicates(Pop(p.metrics, "top_disk_consumers", <<>>))

\* The number of input elements of each list field, by the table they go to.
Expected(p, kind) ==
    CASE kind = "DiskInfo" -> Len(Pop(p.asset_info, "disks", <<>>))
      [] kind = "NetworkInterfaceInfo" ->
           Len(Pop(p.asset_info, "network_interfaces", <<>>))
      [] kind = "WindowsUpdate" -> Len(Pop(p.asset_info, "windows_updates", <<>>))
      [] kind = "DiskUsageMetric" -> Len(Pop(p.metrics, "disk_usage", <<>>))
      [] kind = "TopDiskConsumerMetric" ->
           Len(Pop(p.metrics, "top_disk_consumers", <<>>))
      [] kind = "ProcessDetail" ->
           Len(Pop(p.metrics.top_processes, "by_cpu", <<>>))
             + Len(Pop(p.metrics.top_processes, "by_memory", <<>>))

ListKinds ==
    {"DiskInfo", "NetworkInterfaceInfo", "WindowsUpdate", "DiskUsageMetric",
     "TopDiskConsumerMetric", "ProcessDetail"}

\* The rows of a whole snapshot graph: the Snapshot, AssetInfo and its five
\* objects, MetricData and its four objects, and one row per list element.
ExpectedRows(p) ==
    LET Sum(f, S) ==
          LET RECURSIVE Add(_)
              Add(T) == IF T = {} THEN 0
                        ELSE LET k == CHOOSE k \in T : TRUE
                             IN  f[k] + Add(T \ {k})
          IN  Add(S)
    IN  1 + 1 + Cardinality(AssetOneToOne) + 1 + Cardinality(MetricOneToOne)
          + Sum([k \in ListKinds |-> Expected(p, k)], ListKinds)

\* The request r ends in this step.
Finishes(r) == req[r].status = "running" /\ Finished(req'[r])

\* C1: every valid ingestion document given to the snapshot endpoint's create
\* succeeds: the request ends with the whole graph written (one Snapshot,
\* one AssetInfo with its five objects, one MetricData with its four, the
\* list rows) and is answered 201, not with an error.
C1_ValidIngestionSucceeds ==
    [][\A r \in Reqs :
          (/\ Finishes(r)
           /\ req[r].ser = "ServerMetricSerializer"
           /\ SpecValid(Payload(req[r].payload)))
          => /\ req'[r].status = "done"
             /\ Http(req'[r]) = 201
             /\ Cardinality({x \in store' : x.by = r})
                  = ExpectedRows(Payload(req[r].payload))]_vars

C3_ValidationFailureWritesNothing ==
    \A r \in Reqs :
        (req[r].status = "failed" /\ req[r].exc = "ValidationError")
        => WrittenBy(r) = {}

\* An ingestion has been rejected with a ValidationError (400).
C3_Witness ==
    \E r \in Reqs :
        /\ req[r].entry = "post"
        /\ req[r].status = "failed"
        /\ req[r].exc = "ValidationError"
        /\ Http(req[r]) = 400
        /\ WrittenBy(r) = {}

\* A document that passes for valid but for a disk name it lists twice: the
\* (asset_info, name) uniqueness can only fail when the rows are written.
RepeatsDiskName(p) ==
    /\ {"timestamp", "hostname", "asset_info", "metrics"} \subseteq p.keys
    /\ RequiredAssetKeys \subseteq p.asset_info.keys
    /\ RequiredMetricKeys \subseteq p.metrics.keys
    /\ ~ NoDuplicates(Pop(p.asset_info, "disks", <<>>))

\* C4: the ingestion of a document that lists one disk name twice fails at
\* write time on the (asset_info, name) uniqueness: it ends with the
\* IntegrityError, answered as a conflict (409), and with every row it wrote
\* rolled back; the request ends there, the insert is not tried again.
C4_WriteFailureRolledBack ==
    [][\A r \in Reqs :
          (/\ Finishes(r)
           /\ req[r].entry = "post"
           /\ RepeatsDiskName(Payload(req[r].payload)))
          => /\ req'[r].exc = "IntegrityError"
             /\ req'[r].detail = "UNIQUE"
             /\ Http(req'[r]) = 409
             /\ {x \in store' : x.by = r} = {}]_vars

\* A list request that has rendered its rows and is about to respond.
Responding(r) ==
    /\ req[r].status = "running"
    /\ req[r].entry = "list"
    /\ Head(req[r].plan).op = "respond"

C6_RowCountsMatchLists ==
    [][\A r \in Reqs :
          (/\ Finishes(r)
           /\ req[r].ser = "ServerMetricSerializer"
           /\ SpecValid(Payload(req[r].payload)))
          => \A k \in ListKinds :
                Cardinality({x \in store' : x.by = r /\ x.kind = k})
                  = Expected(Payload(req[r].payload), k)]_vars

\* C7: when a top_processes object has been ingested through the snapshot
\* serializers, every by_cpu entry has a ProcessDetail row tagged cpu and
\* every by_memory entry one tagged memory; and every ProcessDetail row is
\* tagged cpu or memory.
C7_ProcessRowsTagged ==
    [][/\ \A r \in Reqs :
            (/\ Finishes(r)
             /\ req[r].ser \in {"ServerMetricSerializer", "MetricDataSerializer"}
             /\ SpecValid(Payload(req[r].payload)))
            => LET tp == Payload(req[r].payload).metrics.top_processes
                   Tagged(t) == {x \in store' : /\ x.by = r
                                                /\ x.kind = "ProcessDetail"
                                                /\ x.name = t}
               IN  /\ Cardinality(Tagged("cpu")) = Len(Pop(tp, "by_cpu", <<>>))
                   /\ Cardinality(Tagged("memory")) = Len(Pop(tp, "by_memory", <<>>))
       /\ \A x \in store' :
            x.kind = "ProcessDetail" => x.name \in PROCESS_TYPE_CHOICES]_vars

\* C8: process_type is no input: a top_processes document whose entries
\* carry no process_type is valid, and the process_type of a stored row is
\* the list its entry came in, whatever the entry said.
C8_TagIsNoInput ==
    [][\A r \in Reqs :
          (req[r].status = "running" /\ req[r].ser = "TopProcessesMetricSerializer")
          => LET tp == Payload(req[r].payload).metrics.top_processes
                 cpu == Pop(tp, "by_cpu", <<>>)
                 mem == Pop(tp, "by_memory", <<>>)
             IN  /\ (/\ \A i \in 1..Len(cpu) : "process_type" \notin cpu[i].keys
                     /\ \A i \in 1..Len(mem) : "process_type" \notin mem[i].keys)
                    => req'[r].exc # "ValidationError"
                 /\ \A x \in store' \ store :
                      (x.by = r /\ x.kind = "ProcessDetail") =>
                        \/ x.name = "cpu" /\ \E i \in 1..Len(cpu) : cpu[i].pid = x.val
                        \/ x.name = "memory"
                             /\ \E i \in 1..Len(mem) : mem[i].pid = x.val]_vars

\* C9: rows are immutable: a row that is in the store before and after a
\* step has kept every attribute; the store changes only by the insertion of
\* new rows and by deletion.
C9_RowsImmutable ==
    [][\A x \in store :
          (\E y \in store' : y.kind = x.kind /\ y.id = x.id) => x \in store']_vars

\* The required nested objects a snapshot document lacks.
MissingRequired(p) ==
    (RequiredAssetKeys \ p.asset_info.keys) \cup (RequiredMetricKeys \ p.metrics.keys)

\* C11: a POST of a document that lacks a required nested object (os, system,
\* cpu, memory, virtualization; memory_usage, cpu_load, network_usage,
\* top_processes) ends with a validation error (400) that names every missing
\* object, and has written no row.
C11_MissingObjectRejected ==
    [][\A r \in Reqs :
          (/\ Finishes(r)
           /\ req[r].entry = "post"
           /\ MissingRequired(Payload(req[r].payload)) # {})
          => /\ req'[r].exc = "ValidationError"
             /\ Http(req'[r]) = 400
             /\ MissingRequired(Payload(req[r].payload))
                  \subseteq RequiredErrors(req[r].ser, Payload(req[r].payload))
             /\ {x \in store' : x.by = r} = {}]_vars

\* The document a retrieve is to show for the input p: p itself, an absent
\* list field being the empty list and a percentage shown with two places.
Normalised(p) ==
    LET a == p.asset_info
        m == p.metrics
    IN  SnapshotDoc(p.timestamp, p.hostname,
            AssetDoc((a.keys \ {"hostname"})
                         \cup {"disks", "network_interfaces", "windows_updates"},
                     Pop(a, "disks", <<>>), Pop(a, "network_interfaces", <<>>),
                     Pop(a, "windows_updates", <<>>)),
            MetricDoc(m.keys \cup {"disk_usage", "top_disk_consumers"},
                      MemoryUsageDoc(Dec(Hundredths(m.memory_usage.percentage_used), 2)),
                      m.top_processes,
                      Pop(m, "disk_usage", <<>>), Pop(m, "top_disk_consumers", <<>>)))

\* C13: the Snapshot the ingestion of a valid document has created is
\* retrieved by its identifier with 200 and the ingested document (up to the
\* normalisation of absent lists and of decimals), by_cpu and by_memory
\* included.
C13_RoundTrip ==
    [][\A r \in Reqs :
          (/\ Finishes(r)
           /\ req[r].entry = "post"
           /\ SpecValid(Payload(req[r].payload)))
          => \E snap \in Rows(store', "ServerMetric") :
                /\ snap.by = r
                /\ RetrieveResponse(store', snap.id)
                     = [code |-> 200,
                        body |-> <<Normalised(Payload(req[r].payload))>>]]_vars

\* C14: a validated request (a POST, or a save of the nested metrics
\* serializer) whose document holds a percentage outside 0..100 ends with a
\* validation error and has written no row.
C14_PercentageInRange ==
    [][\A r \in Reqs :
          (/\ Finishes(r)
           /\ req[r].entry \in {"post", "save"}
           /\ req[r].ser \in {"ServerMetricSerializer", "MetricDataSerializer"}
           /\ Hundredths(Payload(req[r].payload).metrics.memory_usage.percentage_used)
                > 100 * 100)
          => /\ req'[r].exc = "ValidationError"
             /\ {x \in store' : x.by = r} = {}]_vars

\* A Snapshot satisfies every supplied parameter of the query.
Matches(x, q) ==
    /\ "hostname" \in q.keys => Lower(x.name) = Lower(q.hostname)
    /\ "timestamp_gte" \in q.keys => x.val >= q.timestamp_gte
    /\ "timestamp_lte" \in q.keys => x.val <= q.timestamp_lte

\* The list holds exactly the Snapshots of the store that match the query,
\* each once, the newest first.
ExactlyMatching(results, q) ==
    /\ {results[i] : i \in 1..Len(results)}
         = {x \in Rows(store, "ServerMetric") : Matches(x, q)}
    /\ \A i, j \in 1..Len(results) :
          /\ i < j => results[i].val >= results[j].val
          /\ results[i] = results[j] => i = j

====
